---- MODULE Spec2Model ----
(***************************************************************************)
(* Model of the sandboxed execution engine of flux-api-backend:            *)
(*   SandboxService   (executeEndpoint, checkRateLimit, logExecution)      *)
(*   DockerManager    (createContainer, executeCode, destroyContainer,     *)
(*                     forceStopContainer, cleanupOldContainers)           *)
(*   MockDataService  (saveFromExecution)                                  *)
(* Every await of the JavaScript source is a scheduling point: a handler   *)
(* is a chain of actions, one per stretch of code between two awaits.      *)
(***************************************************************************)
EXTENDS Integers, Sequences, FiniteSets, TLC

(***************************************************************************)
(* Bounds of the model.                                                    *)
(***************************************************************************)
\* request slots that may be in flight at the same time
NumRequests == 2
\* CodeExecutor.executeCode calls made one after the other in SpecExecutor
ExecCalls == 2
\* requests issued one after the other in SpecSeq
RateRequests == 4
\* last tick of the clock (one tick is half an hour)
MaxTime == 3
\* most lines a run prints to stdout in SpecParse
MaxLines == 3
\* DockerManager.maxContainers (env.app.maxContainers, default 10), scaled
maxContainers == 1
\* SandboxService.maxExecutionsPerUser (1000 in the source), scaled
maxExecutionsPerUser == 2

(***************************************************************************)
(* Program constants.                                                      *)
(***************************************************************************)
\* 3600000 ms, the rate-limit window, in ticks
HourTicks == 2
\* cleanupOldContainers' maxAge = 3600000 ms, in ticks
MaxAgeTicks == 2
\* validateCode: code.length > 10000
MaxCodeLength == 10000
\* hasExcessiveLoops: loopCount > 5
MaxLoops == 5

\* a JavaScript falsy value (undefined, null, ''): what a || b skips
Falsy == ""
\* a || b on identifiers
Or(a, b) == IF a = Falsy THEN b ELSE a

(***************************************************************************)
(* The database rows the engine reads (prisma).  Two projects: p1 with an  *)
(* owner, an editing and a view-only collaborator; p2 owned by an          *)
(* outsider of p1.                                                         *)
(***************************************************************************)
Users == {"owner", "editor", "viewer", "outsider"}

ProjectIds == {"p1", "p2"}

projects ==
  [p \in ProjectIds |->
     IF p = "p1"
     THEN [ownerId |-> "owner", visibility |-> "PRIVATE",
           collaborators |-> {[userId |-> "editor", canEdit |-> TRUE],
                              [userId |-> "viewer", canEdit |-> FALSE]}]
     ELSE [ownerId |-> "outsider", visibility |-> "PRIVATE",
           collaborators |-> {}]]

\* the constructs the deny-list of hasDangerousOperations matches
DeniedConstructs ==
  {"require_fs", "require_child_process", "require_os", "process_exit",
   "process_kill", "eval", "Function", "setTimeout", "setInterval",
   "while_true", "for_ever", "import_fs", "import_child_process"}

\* constructs a code string may hold; those added here are matched by no
\* pattern of hasDangerousOperations: require( 'fs' ) written with spaces
\* inside the parentheses, requires of the network modules, and
\* new Array(100000)
Constructs ==
  DeniedConstructs \cup {"require_fs_spaced", "require_net", "require_http",
                         "require_https", "big_array"}

\* a code string, by what validateCode looks at
Code(len, cs, loops, blank) ==
  [length |-> len, constructs |-> cs, loops |-> loops, blank |-> blank]

EndpointIds == {"e1", "e2", "e3", "e4", "e5", "e6", "e7", "e8", "e9", "e10"}

\* e1: valid code; e2: code of 60,000 characters; e3: code calling eval(;
\* e4: require('fs'); e5: import('fs'); e6: require( 'fs' ); e7: six loops;
\* e8: five loops; e9: require('net'); e10: new Array(100000)
endpoints ==
  [e \in EndpointIds |->
     [projectId |-> "p1",
      code |-> CASE e = "e1" -> Code(200, {}, 1, FALSE)
                 [] e = "e2" -> Code(60000, {}, 0, FALSE)
                 [] e = "e3" -> Code(50, {"eval"}, 0, FALSE)
                 [] e = "e4" -> Code(50, {"require_fs"}, 0, FALSE)
                 [] e = "e5" -> Code(50, {"import_fs"}, 0, FALSE)
                 [] e = "e6" -> Code(50, {"require_fs_spaced"}, 0, FALSE)
                 [] e = "e7" -> Code(200, {}, MaxLoops + 1, FALSE)
                 [] e = "e8" -> Code(200, {}, MaxLoops, FALSE)
                 [] e = "e9" -> Code(50, {"require_net"}, 0, FALSE)
                 [] OTHER    -> Code(50, {"big_array"}, 0, FALSE)]]

\* an id no endpoint row has
MissingEndpoint == "e0"

CollectionIds == {"c1", "c2"}

\* the project each mock-data collection belongs to, and whether it has a schema
collectionProject == [c \in CollectionIds |-> IF c = "c1" THEN "p1" ELSE "p2"]

collectionSchema == [c \in CollectionIds |-> c = "c1"]

(***************************************************************************)
(* CodeExecutor.validateCode and its checks.                               *)
(***************************************************************************)
hasDangerousOperations(code) == code.constructs \cap DeniedConstructs # {}

hasExcessiveLoops(code) == code.loops > MaxLoops

\* validateCode without its length check
validateCode_NoLengthCheck(code) ==
  IF hasDangerousOperations(code) THEN "DANGEROUS_OPERATIONS_DETECTED"
  ELSE IF hasExcessiveLoops(code) THEN "EXCESSIVE_LOOPS_DETECTED"
  ELSE IF code.blank THEN "EMPTY_CODE"
  ELSE "OK"

\* the error validateCode throws, or "OK" when it returns true
validateCode(code) ==
  IF code.length > MaxCodeLength THEN "CODE_TOO_LONG"
  ELSE IF hasDangerousOperations(code) THEN "DANGEROUS_OPERATIONS_DETECTED"
  ELSE IF hasExcessiveLoops(code) THEN "EXCESSIVE_LOOPS_DETECTED"
  ELSE IF code.blank THEN "EMPTY_CODE"
  ELSE "OK"

(***************************************************************************)
(* SandboxService.executeEndpoint: the access check on the endpoint row.   *)
(* The query selects the project's ownerId and the collaborator rows of    *)
(* the caller; visibility is not selected, so it reads as undefined.       *)
(***************************************************************************)
selectProject(p, userId) ==
  [id |-> p,
   ownerId |-> projects[p].ownerId,
   collaborators |-> {c \in projects[p].collaborators : c.userId = userId},
   visibility |-> Falsy]

hasAccess(project, userId) ==
  \/ project.ownerId = userId
  \/ project.collaborators # {}
  \/ project.visibility = "PUBLIC"

\* what the spec calls edit access: owner, or collaborator with canEdit
hasEditAccess(p, userId) ==
  \/ projects[p].ownerId = userId
  \/ \E c \in projects[p].collaborators : c.userId = userId /\ c.canEdit

(***************************************************************************)
(* What sandboxed code can hand back.  A save directive is the object the  *)
(* harness's saveMockData puts under _saveOperation; sandboxed code can    *)
(* also build one itself, with any field values or without them.           *)
(***************************************************************************)
\* directive data: an array of items, a non-array value, or undefined
ArrayOf(items) == [kind |-> "array", items |-> items]

NotArray == [kind |-> "other", items |-> <<>>]

NoData == [kind |-> "undefined", items |-> <<>>]

SaveOp(c, u, e, p, d) ==
  [present |-> TRUE, collectionId |-> c, userId |-> u, endpointId |-> e,
   projectId |-> p, data |-> d]

NoSaveOp ==
  [present |-> FALSE, collectionId |-> Falsy, userId |-> Falsy,
   endpointId |-> Falsy, projectId |-> Falsy, data |-> NoData]

\* a value: null, a string that is no JSON, or an object; hasData says that
\* its .data is truthy, saveOp is its .data._saveOperation
NullOut == [kind |-> "null", hasData |-> FALSE, saveOp |-> NoSaveOp]

TextOut == [kind |-> "text", hasData |-> FALSE, saveOp |-> NoSaveOp]

PlainObject == [kind |-> "object", hasData |-> TRUE, saveOp |-> NoSaveOp]

EmptyObject == [kind |-> "object", hasData |-> FALSE, saveOp |-> NoSaveOp]

DirectiveObject(op) == [kind |-> "object", hasData |-> TRUE, saveOp |-> op]

\* one line of stdout or stderr: text that is no JSON ("noise"), text that
\* starts with a brace and does not parse ("badjson"), or a JSON object with
\* its success ("absent", "true", "false"), data and error members
NoiseLine ==
  [kind |-> "noise", success |-> "absent", data |-> NullOut, error |-> FALSE]

BadJsonLine ==
  [kind |-> "badjson", success |-> "absent", data |-> NullOut, error |-> FALSE]

JsonLine(success, data, error) ==
  [kind |-> "json", success |-> success, data |-> data, error |-> error]

\* line.trim().startsWith('{') || line.trim().startsWith('[')
startsWithBrace(line) == line.kind \in {"badjson", "json"}

(***************************************************************************)
(* DockerManager.executeCode, stream 'end' handler: the result derived     *)
(* from stdout, stderr and the exit code.                                 *)
(***************************************************************************)
\* lines.find(startsWithBrace): the FIRST such line, 0 when there is none
findBraceLine(lines) ==
  IF \E i \in 1..Len(lines) : startsWithBrace(lines[i])
  THEN CHOOSE i \in 1..Len(lines) :
         /\ startsWithBrace(lines[i])
         /\ \A j \in 1..(i - 1) : ~startsWithBrace(lines[j])
  ELSE 0

\* the index of the line handed to JSON.parse
jsonLine(lines) ==
  IF startsWithBrace(lines[Len(lines)]) THEN Len(lines)
  ELSE IF findBraceLine(lines) # 0 THEN findBraceLine(lines)
  ELSE Len(lines)

\* the result object executeCode resolves with
deriveResult(stdout, stderr, exitCode) ==
  LET out == IF Len(stdout) = 0 THEN NoiseLine ELSE stdout[jsonLine(stdout)]
      outParsed == Len(stdout) > 0 /\ out.kind = "json"
      output0 == IF Len(stdout) = 0 THEN NullOut
                 ELSE IF ~outParsed THEN TextOut
                 ELSE IF out.data.kind = "null" THEN EmptyObject
                 ELSE out.data
      success0 == IF outParsed THEN out.success # "false" ELSE exitCode = 0
      error0 == IF outParsed /\ out.error THEN "user_error" ELSE Falsy
      err == IF Len(stderr) = 0 THEN NoiseLine ELSE stderr[jsonLine(stderr)]
      errParsed == Len(stderr) > 0 /\ err.kind = "json"
  IN [success |-> IF errParsed THEN FALSE ELSE success0,
      output |-> output0,
      error |-> IF Len(stderr) = 0 THEN error0
                ELSE IF errParsed /\ err.error THEN "user_error"
                ELSE "stderr_text",
      exitCode |-> exitCode]

NoResult ==
  [success |-> FALSE, output |-> NullOut, error |-> Falsy, exitCode |-> 0]

(***************************************************************************)
(* SandboxService.parseOutput and the save directive of executeEndpoint.   *)
(***************************************************************************)
\* JSON.parse of an object throws and the object is returned as it is; a
\* non-JSON string is returned as it is; !output gives null
parseOutput(output) == IF output.kind = "null" THEN NullOut ELSE output

\* output && output.data && output.data._saveOperation
hasSaveOperation(output) ==
  output.kind = "object" /\ output.hasData /\ output.saveOp.present

\* completeSaveOp: the directive with its ids filled in
completeSaveOp(saveOp, mockDataCollectionId, endpointId, userId, projectId) ==
  [saveOp EXCEPT
     !.collectionId = Or(saveOp.collectionId, mockDataCollectionId),
     !.endpointId = Or(saveOp.endpointId, endpointId),
     !.userId = Or(saveOp.userId, userId),
     !.projectId = Or(saveOp.projectId, projectId)]

(***************************************************************************)
(* MockDataService.saveFromExecution: its checks and the metadata it       *)
(* writes.  An item is "bad" when it lacks a field the schema requires.    *)
(***************************************************************************)
Items == {"a", "b", "bad"}

validateDataAgainstSchema(items, schema) ==
  ~schema \/ \A i \in 1..Len(items) : items[i] # "bad"

\* collection.project.ownerId === userId || collaborators.some(canEdit)
canEdit(collectionId, userId) ==
  LET project == selectProject(collectionProject[collectionId], userId)
  IN \/ project.ownerId = userId
     \/ \E c \in project.collaborators : c.canEdit

\* the error saveFromExecution throws for a collection row it has read
\* (found says whether findUnique returned one), or "OK"
saveCheck(found, collectionId, data, userId) ==
  IF ~found THEN "COLLECTION_NOT_FOUND"
  ELSE IF ~canEdit(collectionId, userId) THEN "COLLECTION_EDIT_ACCESS_DENIED"
  ELSE IF data.kind # "array" THEN "DATA_MUST_BE_ARRAY"
  ELSE IF ~validateDataAgainstSchema(data.items, collectionSchema[collectionId])
       THEN "SCHEMA_VALIDATION_FAILED"
  ELSE "OK"

\* a missing version (no metadata) is 0, which || 1 reads as 1
NoVersion == 0

\* the version written back without the increment
nextVersion_NoIncrement(version) == IF version = NoVersion THEN 1 ELSE version

\* (currentMetadata.version || 1) + 1
nextVersion(version) == (IF version = NoVersion THEN 1 ELSE version) + 1

\* the backup: collection._metadata is undefined, so previousVersion is 1
NoBackup == [present |-> FALSE, previousData |-> <<>>, previousVersion |-> 0]

backupOf(row) ==
  [present |-> TRUE, previousData |-> row.data, previousVersion |-> 1]

\* the row of an update that appends the items to the data it read
savedRow_Append(row, items, userId, endpointId) ==
  [data |-> row.data \o items,
   version |-> nextVersion(row.version),
   saveCount |-> row.saveCount + 1,
   lastSavedBy |-> userId,
   lastEndpointId |-> endpointId,
   backup |-> backupOf(row)]

\* the row the update writes, from the row the save read
savedRow(row, items, userId, endpointId) ==
  [data |-> items,
   version |-> nextVersion(row.version),
   saveCount |-> row.saveCount + 1,
   lastSavedBy |-> userId,
   lastEndpointId |-> endpointId,
   backup |-> backupOf(row)]

(***************************************************************************)
(* SandboxService.checkRateLimit on the executionStats map.                *)
(***************************************************************************)
\* this.executionStats.get(userId) || { count: 0, resetTime: now + 3600000 }
userStatsOf(stats, userId, t) ==
  IF userId \in DOMAIN stats THEN stats[userId]
  ELSE [count |-> 0, resetTime |-> t + HourTicks]

\* if (now > userStats.resetTime) { count = 0; resetTime = now + 3600000 }
windowOf(userStats, t) ==
  IF t > userStats.resetTime
  THEN [count |-> 0, resetTime |-> t + HourTicks]
  ELSE userStats

\* CodeExecutor.cacheTTL (30000 ms), scaled to one tick of the clock
cacheTTL == 1

\* the limit test with > for >=
rateLimited_OffByOne(userStats) == userStats.count > maxExecutionsPerUser

\* userStats.count >= this.maxExecutionsPerUser: RATE_LIMIT_EXCEEDED
rateLimited(userStats) == userStats.count >= maxExecutionsPerUser

\* the map after an admitted call: userStats.count++, set(userId, userStats)
admit(stats, userId, t) ==
  LET w == windowOf(userStatsOf(stats, userId, t), t)
  IN [u \in DOMAIN stats \cup {userId} |->
        IF u = userId THEN [w EXCEPT !.count = w.count + 1] ELSE stats[u]]

(***************************************************************************)
(* State.                                                                  *)
(***************************************************************************)
VARIABLES
  now,              \* Date.now(), in ticks
  started,          \* number of executeEndpoint calls made so far
  req,              \* the executeEndpoint call of each request slot
  executionStats,   \* SandboxService.executionStats: userId -> stats
  admitted,         \* history: userId -> times checkRateLimit admitted a call
  activeContainers, \* DockerManager.activeContainers: id -> container data
  docker,           \* the Docker daemon's containers: id -> "created", "running"
  lateDestroys,     \* history: ids sent stop/kill/remove when already removed
  sweep,            \* the cleanupOldContainers run in progress
  mockData,         \* prisma.mockDataCollection: id -> row
  saveLog,          \* prisma.mockDataSaveLog rows
  callCount,        \* prisma.endpoint.callCount: id -> count
  executionCache,   \* CodeExecutor.executionCache: cacheKey -> entry
  exec,             \* the CodeExecutor.executeCode call in progress
  healthReport,     \* what the last SandboxService.healthCheck call did
  rollback          \* what the last MockDataService.rollbackCollection call did

vars ==
  <<now, started, req, executionStats, admitted, activeContainers, docker,
    lateDestroys, sweep, mockData, saveLog, callCount, executionCache, exec,
    healthReport, rollback>>

Requests == 1..NumRequests

NoRow ==
  [data |-> <<>>, version |-> NoVersion, saveCount |-> 0, lastSavedBy |-> Falsy,
   lastEndpointId |-> Falsy, backup |-> NoBackup]

NoResponse ==
  [present |-> FALSE, success |-> FALSE, data |-> NullOut, error |-> Falsy,
   savedData |-> 0]

\* a request slot with no call in it; logs, created, executed, saves, counted
\* and called record what the call has done so far: the log records it
\* wrote, its createContainer calls, whether its code ran, its
\* saveFromExecution calls, whether it incremented the user's rate count
\* and the endpoint's callCount; lastCalled is the time it wrote to the
\* endpoint row; repeat says that on entry the same request had returned
\* a successful result less than cacheTTL before; stdout is what its run
\* printed
IdleRequest ==
  [pc |-> "idle", serial |-> 0, userId |-> Falsy, endpointId |-> Falsy,
   mockDataCollectionId |-> Falsy, containerId |-> 0,
   executionResult |-> NoResult, saveOp |-> NoSaveOp, snapshot |-> NoRow,
   saveResults |-> 0, saveError |-> Falsy, error |-> Falsy,
   validationError |-> Falsy, response |-> NoResponse, logs |-> <<>>,
   created |-> 0, executed |-> FALSE, saves |-> <<>>,
   counted |-> FALSE, called |-> FALSE, repeat |-> FALSE, lastCalled |-> 0,
   stdout |-> <<>>]

\* the result object of an execution strategy
NoExecResult ==
  [success |-> FALSE, output |-> NullOut, error |-> Falsy, strategy |-> Falsy]

\* no executeCode call in progress; calls counts the calls made so far
IdleExec ==
  [pc |-> "idle", calls |-> 0, strategy |-> Falsy, code |-> Falsy,
   language |-> Falsy, requireIsolation |-> FALSE, cacheKey |-> Falsy,
   health |-> Falsy, containerId |-> 0, pending |-> NoExecResult,
   failed |-> FALSE, result |-> NoExecResult, thrown |-> Falsy,
   fromCache |-> FALSE, dockerTried |-> FALSE, userThrew |-> Falsy]

\* c1 was made by createCollection (version 1), c2 by a project import (no
\* metadata)
\* no SandboxService.healthCheck call made yet; returned and thrown say
\* how a call ended
NoHealthReport ==
  [returned |-> FALSE, thrown |-> Falsy, status |-> Falsy,
   activeContainers |-> 0, maxContainers |-> 0, totalExecutions |-> 0,
   rateLimit |-> 0]

\* no rollbackCollection call made yet; saveCount and previousData are
\* what the row held when the call read it, data what the collection holds
\* when the call ends
NoRollback ==
  [called |-> FALSE, collectionId |-> Falsy, userId |-> Falsy, error |-> Falsy,
   saveCount |-> 0, previousData |-> <<>>, data |-> <<>>]

Init ==
  /\ now = 0
  /\ started = 0
  /\ req = [r \in Requests |-> IdleRequest]
  /\ executionStats = <<>>
  /\ admitted = [u \in Users |-> <<>>]
  /\ activeContainers = <<>>
  /\ docker = <<>>
  /\ lateDestroys = {}
  /\ sweep = [pc |-> "idle", queue |-> <<>>]
  /\ mockData = [c \in CollectionIds |->
                   [NoRow EXCEPT !.data = <<"a">>,
                                 !.version = IF c = "c1" THEN 1 ELSE NoVersion]]
  /\ saveLog = {}
  /\ callCount = [e \in EndpointIds |-> 0]
  /\ executionCache = <<>>
  /\ exec = IdleExec
  /\ healthReport = NoHealthReport
  /\ rollback = NoRollback

\* Map.delete
delete(map, key) == [k \in DOMAIN map \ {key} |-> map[k]]

\* Map.set
set(map, key, value) ==
  [k \in DOMAIN map \cup {key} |-> IF k = key THEN value ELSE map[k]]

(***************************************************************************)
(* The answers of the Docker daemon and of the database.  `daemon` and     *)
(* `db` are the answers a specification lets them give: TRUE (the call     *)
(* succeeds), FALSE (it rejects).  A stop, kill or remove of a container   *)
(* the daemon no longer has always rejects.                                *)
(***************************************************************************)
daemonAnswers(id, daemon) == IF id \in DOMAIN docker THEN daemon ELSE {FALSE}

\* the answers to docker.createContainer followed by container.start
createAnswers(daemon) ==
  {"started"} \cup IF FALSE \in daemon THEN {"create_failed", "start_failed"} ELSE {}

\* the daemon's state after a stop, kill or remove that answered ok: the
\* container is gone (AutoRemove)
destroyed(id, ok) == IF ok THEN delete(docker, id) ELSE docker

\* the history of destroy calls that reached a removed container
lateDestroy(id) ==
  IF id \in DOMAIN docker THEN lateDestroys ELSE lateDestroys \cup {id}

(***************************************************************************)
(* SandboxService.executeEndpoint, action by action.                       *)
(***************************************************************************)
\* the finally block, entered with the slot's record as it was left `q`:
\* destroyContainer returns at once for an id that is not registered
enterFinally(q) ==
  IF q.containerId # 0 /\ q.containerId \in DOMAIN activeContainers
  THEN [q EXCEPT !.pc = "stopping"]
  ELSE [q EXCEPT !.pc = "done"]

\* another call for endpoint e and collection c has returned a successful
\* result less than cacheTTL ago
repeats(r, e, c) ==
  \E r1 \in Requests \ {r} :
    /\ req[r1].response.present /\ req[r1].response.success
    /\ req[r1].endpointId = e /\ req[r1].mockDataCollectionId = c
    /\ now - req[r1].lastCalled < cacheTTL

\* the call, up to the await of dockerManager.healthCheck()
executeEndpoint(r, users, endpointIds, collectionIds) ==
  /\ req[r].pc = "idle"
  /\ \E u \in users, e \in endpointIds, c \in collectionIds :
       req' = [req EXCEPT ![r] =
                 [IdleRequest EXCEPT !.pc = "rate", !.serial = started + 1,
                    !.userId = u, !.endpointId = e,
                    !.mockDataCollectionId = c,
                    !.repeat = repeats(r, e, c)]]
  /\ started' = started + 1
  /\ UNCHANGED <<rollback, healthReport, executionCache, exec, now, executionStats, admitted, activeContainers, docker,
                 lateDestroys, sweep, mockData, saveLog, callCount>>

\* checkRateLimit counting the call before it tests the limit
checkRateLimit_CountFirst(r) ==
  /\ req[r].pc = "rate"
  /\ LET u == req[r].userId
         w == windowOf(userStatsOf(executionStats, u, now), now)
     IN /\ executionStats' = admit(executionStats, u, now)
        /\ admitted' = [admitted EXCEPT ![u] = Append(@, now)]
        /\ req' = [req EXCEPT ![r] =
             IF rateLimited(w)
             THEN [@ EXCEPT !.pc = "done", !.error = "RATE_LIMIT_EXCEEDED",
                            !.counted = TRUE]
             ELSE [@ EXCEPT !.pc = "lookup", !.counted = TRUE]]
  /\ UNCHANGED <<rollback, healthReport, executionCache, exec, now, started, activeContainers, docker, lateDestroys, sweep,
                 mockData, saveLog, callCount>>

\* await this.checkRateLimit(userId), then the endpoint query is sent
checkRateLimit(r) ==
  /\ req[r].pc = "rate"
  /\ LET u == req[r].userId
         w == windowOf(userStatsOf(executionStats, u, now), now)
     IN IF rateLimited(w)
        THEN /\ req' = [req EXCEPT ![r].pc = "done",
                                   ![r].error = "RATE_LIMIT_EXCEEDED"]
             /\ UNCHANGED <<rollback, healthReport, executionCache, exec, executionStats, admitted>>
        ELSE /\ executionStats' = admit(executionStats, u, now)
             /\ admitted' = [admitted EXCEPT ![u] = Append(@, now)]
             /\ req' = [req EXCEPT ![r].pc = "lookup", ![r].counted = TRUE]
  /\ UNCHANGED <<rollback, healthReport, executionCache, exec, now, started, activeContainers, docker, lateDestroys, sweep,
                 mockData, saveLog, callCount>>

\* the endpoint row arrives: the access check, validateCode, then
\* createExecutionContext and createContainer up to its first await
lookupEndpoint(r) ==
  /\ req[r].pc = "lookup"
  /\ LET q == req[r]
         found == q.endpointId \in EndpointIds
         endpoint == endpoints[q.endpointId]
         project == selectProject(endpoint.projectId, q.userId)
         v == validateCode(endpoint.code)
     IN req' = [req EXCEPT ![r] =
          IF ~found
          THEN [q EXCEPT !.pc = "done", !.error = "ENDPOINT_NOT_FOUND"]
          ELSE IF ~hasAccess(project, q.userId)
          THEN [q EXCEPT !.pc = "done", !.error = "ENDPOINT_ACCESS_DENIED"]
          ELSE IF v # "OK"
          THEN [q EXCEPT !.pc = "vlog", !.error = "SANDBOX_VALIDATION_FAILED",
                         !.validationError = v]
          ELSE IF Cardinality(DOMAIN activeContainers) >= maxContainers
          THEN [q EXCEPT !.pc = "elog", !.created = q.created + 1,
                         !.error = "CONTAINER_LIMIT_EXCEEDED"]
          ELSE [q EXCEPT !.pc = "creating", !.created = q.created + 1]]
  /\ UNCHANGED <<rollback, healthReport, executionCache, exec, now, started, executionStats, admitted, activeContainers,
                 docker, lateDestroys, sweep, mockData, saveLog, callCount>>

\* logExecution of the validation failure (a failing create is swallowed),
\* then the throw, outside the try block
logValidationFailure(r, db) ==
  /\ req[r].pc = "vlog"
  /\ \E ok \in db :
       req' = [req EXCEPT ![r].pc = "done",
                          ![r].logs = IF ok THEN Append(@, 400) ELSE @]
  /\ UNCHANGED <<rollback, healthReport, executionCache, exec, now, started, executionStats, admitted, activeContainers,
                 docker, lateDestroys, sweep, mockData, saveLog, callCount>>

(***************************************************************************)
(* DockerManager.createContainer after its limit check, and executeCode up *)
(* to the promise that waits for the stream.                               *)
(***************************************************************************)
\* docker.createContainer and container.start answer; on success the
\* container is registered and executeCode starts the exec.  A container
\* whose start failed stays created in the daemon.
createContainer(r, daemon) ==
  /\ req[r].pc = "creating"
  /\ LET id == req[r].serial
     IN \E answer \in createAnswers(daemon) :
          /\ docker' = IF answer = "started" THEN set(docker, id, "running")
                       ELSE IF answer = "start_failed"
                       THEN set(docker, id, "created")
                       ELSE docker
          /\ activeContainers' =
               IF answer = "started"
               THEN set(activeContainers, id, [createdAt |-> now, lastUsed |-> now])
               ELSE activeContainers
          /\ req' = [req EXCEPT ![r] =
               IF answer = "started"
               THEN [@ EXCEPT !.pc = "running", !.containerId = id]
               ELSE [@ EXCEPT !.pc = "elog",
                              !.error = "CONTAINER_CREATION_FAILED"]]
  /\ UNCHANGED <<rollback, healthReport, executionCache, exec, now, started, executionStats, admitted, lateDestroys, sweep,
                 mockData, saveLog, callCount>>

\* stream 'end': the result is derived, then executeEndpoint looks for a
\* save directive and calls saveFromExecution (up to its findUnique)
streamEnd(r, runs) ==
  /\ req[r].pc = "running"
  /\ \E run \in runs :
       LET q == req[r]
           result == deriveResult(run.stdout, run.stderr, run.exitCode)
           output == parseOutput(result.output)
           op == completeSaveOp(output.saveOp, q.mockDataCollectionId,
                                q.endpointId, q.userId,
                                endpoints[q.endpointId].projectId)
           ran == [q EXCEPT !.executionResult = result, !.executed = TRUE,
                            !.stdout = run.stdout]
       IN req' = [req EXCEPT ![r] =
            IF ~hasSaveOperation(output) THEN [ran EXCEPT !.pc = "log"]
            ELSE IF op.data.kind = "undefined"
            \* completeSaveOp.data.length throws; the catch only logs it
            THEN [ran EXCEPT !.pc = "log", !.saveError = "TypeError"]
            ELSE [ran EXCEPT !.pc = "save_read", !.saveOp = op,
                    !.saves = Append(@, [collectionId |-> op.collectionId,
                                         userId |-> op.userId,
                                         endpointId |-> op.endpointId])]]
  /\ UNCHANGED <<rollback, healthReport, executionCache, exec, now, started, executionStats, admitted, activeContainers,
                 docker, lateDestroys, sweep, mockData, saveLog, callCount>>

\* stream 'error', or exec.inspect() rejecting: executeCode rejects
streamError(r) ==
  /\ req[r].pc = "running"
  /\ req' = [req EXCEPT ![r].pc = "elog", ![r].error = "STREAM_ERROR"]
  /\ UNCHANGED <<rollback, healthReport, executionCache, exec, now, started, executionStats, admitted, activeContainers,
                 docker, lateDestroys, sweep, mockData, saveLog, callCount>>

\* the timeout fires: stream.destroy(), then forceStopContainer up to its
\* await of container.kill(); for an unregistered id it returns at once
executionTimeout(r) ==
  /\ req[r].pc = "running"
  /\ req' = [req EXCEPT ![r] =
       IF @.containerId \in DOMAIN activeContainers
       THEN [@ EXCEPT !.pc = "killing"]
       ELSE [@ EXCEPT !.pc = "elog", !.error = "EXECUTION_TIMEOUT"]]
  /\ UNCHANGED <<rollback, healthReport, executionCache, exec, now, started, executionStats, admitted, activeContainers,
                 docker, lateDestroys, sweep, mockData, saveLog, callCount>>

\* container.kill() answers; then reject(EXECUTION_TIMEOUT)
forceStopContainer(r, daemon) ==
  /\ req[r].pc = "killing"
  /\ LET id == req[r].containerId
     IN \E ok \in daemonAnswers(id, daemon) :
          /\ docker' = destroyed(id, ok)
          /\ lateDestroys' = lateDestroy(id)
          /\ activeContainers' =
               IF ok THEN delete(activeContainers, id) ELSE activeContainers
  /\ req' = [req EXCEPT ![r].pc = "elog", ![r].error = "EXECUTION_TIMEOUT"]
  /\ UNCHANGED <<rollback, healthReport, executionCache, exec, now, started, executionStats, admitted, sweep, mockData,
                 saveLog, callCount>>

(***************************************************************************)
(* MockDataService.saveFromExecution, called from executeEndpoint.  An     *)
(* error it throws is caught by executeEndpoint's inner try, which only    *)
(* logs it to the console.                                                 *)
(***************************************************************************)

\* saveFromExecution that writes the collection before it runs its checks
saveFromExecutionRead_WriteFirst(r) ==
  /\ req[r].pc = "save_read"
  /\ LET q == req[r]
         c == q.saveOp.collectionId
         found == c \in CollectionIds
         err == saveCheck(found, c, q.saveOp.data, q.saveOp.userId)
     IN /\ req' = [req EXCEPT ![r] =
             IF err # "OK" THEN [q EXCEPT !.pc = "log", !.saveError = err]
             ELSE [q EXCEPT !.pc = "save_commit", !.snapshot = mockData[c]]]
        /\ mockData' =
             IF found
             THEN [mockData EXCEPT ![c] =
                     savedRow(@, q.saveOp.data.items, q.saveOp.userId,
                              q.saveOp.endpointId)]
             ELSE mockData
  /\ UNCHANGED <<rollback, healthReport, executionCache, exec, now, started,
                 executionStats, admitted, activeContainers, docker,
                 lateDestroys, sweep, saveLog, callCount>>

\* findUnique answers: the checks, then the update is sent
saveFromExecutionRead(r) ==
  /\ req[r].pc = "save_read"
  /\ LET q == req[r]
         c == q.saveOp.collectionId
         found == c \in CollectionIds
         err == saveCheck(found, c, q.saveOp.data, q.saveOp.userId)
     IN req' = [req EXCEPT ![r] =
          IF err # "OK" THEN [q EXCEPT !.pc = "log", !.saveError = err]
          ELSE [q EXCEPT !.pc = "save_commit", !.snapshot = mockData[c]]]
  /\ UNCHANGED <<rollback, healthReport, executionCache, exec, now, started, executionStats, admitted, activeContainers,
                 docker, lateDestroys, sweep, mockData, saveLog, callCount>>

\* the update answers (it can fail), then logSaveOperation (whose failure is
\* swallowed) and saveResults.push
saveFromExecutionCommit(r, db) ==
  /\ req[r].pc = "save_commit"
  /\ LET q == req[r]
         c == q.saveOp.collectionId
         row == savedRow(q.snapshot, q.saveOp.data.items, q.saveOp.userId,
                         q.saveOp.endpointId)
     IN \E ok \in db, logged \in db :
          /\ ok \/ ~logged
          /\ mockData' = IF ok THEN [mockData EXCEPT ![c] = row] ELSE mockData
          /\ saveLog' =
               IF logged
               THEN saveLog \cup {[collectionId |-> c, userId |-> q.saveOp.userId,
                                   newVersion |-> row.version]}
               ELSE saveLog
          /\ req' = [req EXCEPT ![r] =
               IF ok THEN [q EXCEPT !.pc = "log", !.saveResults = q.saveResults + 1]
               ELSE [q EXCEPT !.pc = "log", !.saveError = "STORAGE_ERROR"]]
  /\ UNCHANGED <<rollback, healthReport, executionCache, exec, now, started, executionStats, admitted, activeContainers,
                 docker, lateDestroys, sweep, callCount>>

(***************************************************************************)
(* executeEndpoint: LOG, the endpoint statistics, the response, the catch  *)
(* block and the finally block.                                            *)
(***************************************************************************)
\* logExecution whose failing create goes to the catch block of
\* executeEndpoint
logExecution_Propagates(r, db) ==
  /\ req[r].pc = "log"
  /\ \E ok \in db :
       req' = [req EXCEPT ![r] =
                 IF ok
                 THEN [@ EXCEPT !.pc = "update",
                                !.logs = Append(@, IF req[r].executionResult.success
                                                   THEN 200 ELSE 500)]
                 ELSE [@ EXCEPT !.pc = "elog", !.error = "LOG_FAILED"]]
  /\ UNCHANGED <<rollback, healthReport, executionCache, exec, now, started,
                 executionStats, admitted, activeContainers, docker,
                 lateDestroys, sweep, mockData, saveLog, callCount>>

\* logExecution with status 200 or 500; a failing create is swallowed
logExecution(r, db) ==
  /\ req[r].pc = "log"
  /\ \E ok \in db :
       req' = [req EXCEPT ![r].pc = "update",
                 ![r].logs =
                    IF ok
                    THEN Append(@, IF req[r].executionResult.success
                                   THEN 200 ELSE 500)
                    ELSE @]
  /\ UNCHANGED <<rollback, healthReport, executionCache, exec, now, started, executionStats, admitted, activeContainers,
                 docker, lateDestroys, sweep, mockData, saveLog, callCount>>

\* a response whose success flag also requires the save to have succeeded
responseOf_SaveAware(q) ==
  [present |-> TRUE,
   success |-> q.executionResult.success /\ q.saveError = Falsy,
   data |-> IF q.executionResult.success /\ q.saveError = Falsy
            THEN parseOutput(q.executionResult.output) ELSE NullOut,
   error |-> q.executionResult.error,
   savedData |-> q.saveResults]

\* the value executeEndpoint returns
responseOf(q) ==
  [present |-> TRUE,
   success |-> q.executionResult.success,
   data |-> IF q.executionResult.success
            THEN parseOutput(q.executionResult.output) ELSE NullOut,
   error |-> q.executionResult.error,
   savedData |-> q.saveResults]

\* prisma.endpoint.update answers: the response is built and the finally
\* block entered, or the update's error goes to the catch block
updateEndpointStats(r, db) ==
  /\ req[r].pc = "update"
  /\ \E ok \in db :
       IF ok
       THEN /\ callCount' = [callCount EXCEPT ![req[r].endpointId] = @ + 1]
            /\ req' = [req EXCEPT ![r] =
                 enterFinally([@ EXCEPT !.response = responseOf(req[r]),
                                        !.called = TRUE,
                                        !.lastCalled = now])]
       ELSE /\ callCount' = callCount
            /\ req' = [req EXCEPT ![r].pc = "elog",
                                  ![r].error = "ENDPOINT_UPDATE_FAILED"]
  /\ UNCHANGED <<rollback, healthReport, executionCache, exec, now, started, executionStats, admitted, activeContainers,
                 docker, lateDestroys, sweep, mockData, saveLog>>

\* the catch block: logExecution with status 500, then throw error
logExecutionError(r, db) ==
  /\ req[r].pc = "elog"
  /\ \E ok \in db :
       req' = [req EXCEPT ![r] =
                 enterFinally([@ EXCEPT !.logs = IF ok THEN Append(@, 500) ELSE @])]
  /\ UNCHANGED <<rollback, healthReport, executionCache, exec, now, started, executionStats, admitted, activeContainers,
                 docker, lateDestroys, sweep, mockData, saveLog, callCount>>

\* destroyContainer in the finally block: container.stop answers
destroyContainerStop(r, daemon) ==
  /\ req[r].pc = "stopping"
  /\ LET id == req[r].containerId
     IN \E ok \in daemonAnswers(id, daemon) :
          /\ docker' = destroyed(id, ok)
          /\ lateDestroys' = lateDestroy(id)
          /\ activeContainers' =
               IF ok THEN delete(activeContainers, id) ELSE activeContainers
          /\ req' = [req EXCEPT ![r].pc = IF ok THEN "done" ELSE "removing"]
  /\ UNCHANGED <<rollback, healthReport, executionCache, exec, now, started, executionStats, admitted, sweep, mockData,
                 saveLog, callCount>>

\* destroyContainer after a failed stop: container.remove({force}) answers
destroyContainerRemove(r, daemon) ==
  /\ req[r].pc = "removing"
  /\ LET id == req[r].containerId
     IN \E ok \in daemonAnswers(id, daemon) :
          /\ docker' = destroyed(id, ok)
          /\ lateDestroys' = lateDestroy(id)
          /\ activeContainers' =
               IF ok THEN delete(activeContainers, id) ELSE activeContainers
  /\ req' = [req EXCEPT ![r].pc = "done"]
  /\ UNCHANGED <<rollback, healthReport, executionCache, exec, now, started, executionStats, admitted, sweep, mockData,
                 saveLog, callCount>>

\* the caller has its answer; the slot takes the next request
respond(r) ==
  /\ req[r].pc = "done"
  /\ req' = [req EXCEPT ![r] = IdleRequest]
  /\ UNCHANGED <<rollback, healthReport, executionCache, exec, now, started, executionStats, admitted, activeContainers,
                 docker, lateDestroys, sweep, mockData, saveLog, callCount>>

(***************************************************************************)
(* DockerManager.cleanupOldContainers, run by the cleanup interval, and    *)
(* the clock.                                                              *)
(***************************************************************************)
\* the ids of a set, in ascending order
RECURSIVE inOrder(_)
inOrder(ids) ==
  IF ids = {} THEN <<>>
  ELSE LET least == CHOOSE i \in ids : \A j \in ids : i <= j
       IN <<least>> \o inOrder(ids \ {least})

\* now - data.lastUsed > maxAge
toRemove(containers, t) ==
  {id \in DOMAIN containers : t - containers[id].lastUsed > MaxAgeTicks}

\* the sweep's loop at `queue`: destroyContainer returns at once for an id
\* that is not registered in `containers`, and awaits stop for the first that is
RECURSIVE sweepAt(_, _)
sweepAt(queue, containers) ==
  IF queue = <<>> THEN [pc |-> "idle", queue |-> <<>>]
  ELSE IF Head(queue) \in DOMAIN containers
  THEN [pc |-> "stopping", queue |-> queue]
  ELSE sweepAt(Tail(queue), containers)

cleanupOldContainers ==
  /\ sweep.pc = "idle"
  /\ toRemove(activeContainers, now) # {}
  /\ sweep' = sweepAt(inOrder(toRemove(activeContainers, now)), activeContainers)
  /\ UNCHANGED <<rollback, healthReport, executionCache, exec, now, started, req, executionStats, admitted, activeContainers,
                 docker, lateDestroys, mockData, saveLog, callCount>>

\* the sweep's destroyContainer: container.stop answers
sweepStop(daemon) ==
  /\ sweep.pc = "stopping"
  /\ LET id == Head(sweep.queue)
     IN \E ok \in daemonAnswers(id, daemon) :
          /\ docker' = destroyed(id, ok)
          /\ lateDestroys' = lateDestroy(id)
          /\ activeContainers' =
               IF ok THEN delete(activeContainers, id) ELSE activeContainers
          /\ sweep' = IF ok THEN sweepAt(Tail(sweep.queue), activeContainers')
                      ELSE [sweep EXCEPT !.pc = "removing"]
  /\ UNCHANGED <<rollback, healthReport, executionCache, exec, now, started, req, executionStats, admitted, mockData,
                 saveLog, callCount>>

\* the sweep's destroyContainer after a failed stop: remove answers
sweepRemove(daemon) ==
  /\ sweep.pc = "removing"
  /\ LET id == Head(sweep.queue)
     IN \E ok \in daemonAnswers(id, daemon) :
          /\ docker' = destroyed(id, ok)
          /\ lateDestroys' = lateDestroy(id)
          /\ activeContainers' =
               IF ok THEN delete(activeContainers, id) ELSE activeContainers
          /\ sweep' = sweepAt(Tail(sweep.queue), activeContainers')
  /\ UNCHANGED <<rollback, healthReport, executionCache, exec, now, started, req, executionStats, admitted, mockData,
                 saveLog, callCount>>

\* half an hour passes
Tick ==
  /\ now < MaxTime
  /\ now' = now + 1
  /\ UNCHANGED <<rollback, healthReport, executionCache, exec, started, req, executionStats, admitted, activeContainers,
                 docker, lateDestroys, sweep, mockData, saveLog, callCount>>

\* the containers whose `sleep 3600` has ended by time t: they exit and,
\* with AutoRemove, the daemon removes them
exited(t) ==
  {id \in DOMAIN docker \cap DOMAIN activeContainers :
     docker[id] = "running" /\ t - activeContainers[id].createdAt >= HourTicks}

\* half an hour passes, and the containers whose command has ended are gone
TickWithExits ==
  /\ now < MaxTime
  /\ now' = now + 1
  /\ docker' = [id \in DOMAIN docker \ exited(now + 1) |-> docker[id]]
  /\ UNCHANGED <<started, req, executionStats, admitted, activeContainers,
                 lateDestroys, sweep, mockData, saveLog, callCount,
                 executionCache, exec, healthReport, rollback>>

(***************************************************************************)
(* MockDataService.rollbackCollection.                                     *)
(***************************************************************************)
\* collection._metadata?.backup: the row findUnique selects has the members
\* data and metadata, and no _metadata, so this reads undefined
underscoreBackup(row) == NoBackup

\* the row a rollback writes: backup.previousData and the version plus one
rolledBackRow(row, backup) ==
  [row EXCEPT !.data = backup.previousData,
              !.version = (IF row.version = NoVersion THEN 1 ELSE row.version) + 1]

\* rollbackCollection by user u for collection c: verifyCollectionEditAccess,
\* findUnique, the backup test (an empty previousData array is truthy) and
\* the update.  Nothing is written before the update, the call's last write.
rollbackCollection(users, collectionIds) ==
  /\ \E u \in users, c \in collectionIds :
       LET row == mockData[c]
           backup == underscoreBackup(row)
           err == IF ~canEdit(c, u) THEN "COLLECTION_EDIT_ACCESS_DENIED"
                  ELSE IF ~backup.present THEN "NO_BACKUP_AVAILABLE"
                  ELSE Falsy
       IN /\ mockData' = IF err = Falsy
                         THEN [mockData EXCEPT ![c] = rolledBackRow(row, backup)]
                         ELSE mockData
          /\ rollback' = [called |-> TRUE, collectionId |-> c, userId |-> u,
                          error |-> err, saveCount |-> row.saveCount,
                          previousData |-> row.backup.previousData,
                          data |-> mockData'[c].data]
  /\ UNCHANGED <<now, started, req, executionStats, admitted, activeContainers,
                 docker, lateDestroys, sweep, saveLog, callCount,
                 executionCache, exec, healthReport>>

(***************************************************************************)
(* DockerManager.healthCheck and SandboxService.healthCheck.               *)
(***************************************************************************)
\* the object DockerManager.healthCheck resolves with: docker.info()
\* answered, or it threw and the object has status and error only
dockerHealthOf(ok) ==
  IF ok
  THEN [status |-> "HEALTHY", hasContainers |-> TRUE,
        total |-> Cardinality(DOMAIN activeContainers), max |-> maxContainers]
  ELSE [status |-> "UNHEALTHY", hasContainers |-> FALSE, total |-> 0, max |-> 0]

\* Array.from(executionStats.values()).reduce((sum, stats) => sum + stats.count, 0)
RECURSIVE totalExecutionsOf(_, _)
totalExecutionsOf(stats, users) ==
  IF users = {} THEN 0
  ELSE LET u == CHOOSE x \in users : TRUE
       IN stats[u].count + totalExecutionsOf(stats, users \ {u})

\* SandboxService.healthCheck: dockerHealth.containers.total throws a
\* TypeError when dockerHealth has no containers member
sandboxHealthCheck(daemon) ==
  /\ \E ok \in daemon :
       LET dockerHealth == dockerHealthOf(ok)
       IN healthReport' =
            IF ~dockerHealth.hasContainers
            THEN [NoHealthReport EXCEPT !.thrown = "TypeError"]
            ELSE [returned |-> TRUE, thrown |-> Falsy,
                  status |-> dockerHealth.status,
                  activeContainers |-> dockerHealth.total,
                  maxContainers |-> dockerHealth.max,
                  totalExecutions |->
                    totalExecutionsOf(executionStats, DOMAIN executionStats),
                  rateLimit |-> maxExecutionsPerUser]
  /\ UNCHANGED <<rollback, now, started, req, executionStats, admitted, activeContainers,
                 docker, lateDestroys, sweep, mockData, saveLog, callCount,
                 executionCache, exec>>

(***************************************************************************)
(* What a run of sandboxed code prints.                                    *)
(***************************************************************************)
Run(stdout, stderr, exitCode) ==
  [stdout |-> stdout, stderr |-> stderr, exitCode |-> exitCode]

\* the harness's lines: the result on stdout, or the error on stderr and
\* process.exit(1)
harnessResult(data) == Run(<<JsonLine("true", data, FALSE)>>, <<>>, 0)

harnessError == Run(<<>>, <<JsonLine("false", NullOut, TRUE)>>, 1)

\* runs of code that returns a plain value, throws, or prints no JSON
plainRuns ==
  {harnessResult(PlainObject), harnessError, Run(<<NoiseLine>>, <<>>, 0)}

\* the directive data sandboxed code hands over
directiveData ==
  {ArrayOf(<<>>), ArrayOf(<<"b">>), ArrayOf(<<"b", "a">>), ArrayOf(<<"bad">>),
   NotArray, NoData}

\* the directive the harness's saveMockData builds for call q: its ids are
\* those of the call ('' when no collection was selected)
harnessSaveOp(q, data) ==
  SaveOp(q.mockDataCollectionId, q.userId, q.endpointId,
         endpoints[q.endpointId].projectId, data)

\* directives sandboxed code can put in its output for call q: the
\* harness's, and ones it made up, with ids of its choice or without them
saveOps(q) ==
  {harnessSaveOp(q, d) : d \in directiveData}
    \cup {SaveOp(c, u, Falsy, Falsy, ArrayOf(<<"b">>)) :
            c \in {Falsy} \cup CollectionIds, u \in {Falsy, "owner", "outsider"}}
    \cup {SaveOp(Falsy, Falsy, e, p, ArrayOf(<<"b">>)) :
            e \in {Falsy, "e3"}, p \in {Falsy, "p2"}}

\* runs whose output carries a directive: returned by the code, printed by
\* the code before it throws, or returned by code that also wrote JSON to
\* stderr
directiveRuns(q) ==
  UNION {{harnessResult(DirectiveObject(op)),
          Run(<<JsonLine("false", DirectiveObject(op), FALSE)>>,
              <<JsonLine("false", NullOut, TRUE)>>, 1),
          Run(<<JsonLine("true", DirectiveObject(op), FALSE)>>,
              <<JsonLine("absent", NullOut, FALSE)>>, 0)} : op \in saveOps(q)}

\* the lines a run can print: a log line that is no JSON, a line that
\* starts with a brace and does not parse, a JSON log line without a data
\* member, and the harness's result line
StdoutLines ==
  {NoiseLine, BadJsonLine, JsonLine("absent", NullOut, FALSE),
   JsonLine("true", PlainObject, FALSE)}

\* runs that exit with 0 and print every arrangement of up to MaxLines
\* such lines
stdoutRuns ==
  {Run(stdout, <<>>, 0) :
     stdout \in UNION {[1..n -> StdoutLines] : n \in 0..MaxLines}}

(***************************************************************************)
(* CodeExecutor: executeCode with its cache, autoExecute, executeWithDocker *)
(* and executeWithVM2.  Calls are made one after the other.                *)
(***************************************************************************)
\* a code string, by what hasComplexOperations and hasAsyncOperations match
ExecCodes ==
  {[id |-> "plain", complex |-> FALSE, async |-> FALSE],
   [id |-> "loop", complex |-> TRUE, async |-> FALSE],
   [id |-> "await", complex |-> TRUE, async |-> TRUE]}

Languages == {"javascript", "python"}

Strategies == {"docker", "vm2", "auto"}

hasComplexOperations(code) == code.complex

hasAsyncOperations(code) == code.async

\* the mock data, environment and request of the context, as JSON text
contextJson == "mockData+environment+request"

\* base64 of code + JSON of mockData, environment and request
generateCacheKey(code) == <<code.id, contextJson>>

\* autoExecute: shouldUseDocker
shouldUseDocker(x) ==
  \/ x.language # "javascript"
  \/ hasComplexOperations(x.code)
  \/ hasAsyncOperations(x.code)
  \/ x.requireIsolation

\* DockerManager.healthCheck: the status docker.info() leads to
healthCheck(ok) == IF ok THEN "HEALTHY" ELSE "UNHEALTHY"

\* dockerManager.healthCheck().status: healthCheck() is a promise, and a
\* promise has no status property; await of undefined is undefined
promiseStatus(health) == Falsy

\* cachedResult && Date.now() - cachedResult.timestamp < this.cacheTTL
cacheHit(key, t) ==
  key \in DOMAIN executionCache /\ t - executionCache[key].timestamp < cacheTTL

\* the cache after executeCode got `result`, caching also failed results
afterResult_CacheAll(x, result) ==
  set(executionCache, x.cacheKey, [result |-> result, timestamp |-> now])

\* the cache after executeCode got `result`: if (result.success) set(...)
afterResult(x, result) ==
  IF result.success
  THEN set(executionCache, x.cacheKey, [result |-> result, timestamp |-> now])
  ELSE executionCache

\* what vm.run does with the code: it returns a value, or the code throws
\* an Error, a value that is no Error (a string), or null
VmOutcomes == {"returns", "throws_error", "throws_string", "throws_null"}

\* executeWithVM2: the object it returns; error.message of a string is
\* undefined
vm2Result(outcome) ==
  IF outcome = "returns"
  THEN [success |-> TRUE, output |-> PlainObject, error |-> Falsy,
        strategy |-> "vm2"]
  ELSE [success |-> FALSE, output |-> NullOut,
        error |-> IF outcome = "throws_error" THEN "message" ELSE Falsy,
        strategy |-> "vm2"]

\* what the code wrapped by wrapCodeForDocker and again by wrapCode prints:
\* the result and the outer harness's line run together on one stdout line,
\* or the error on stderr and the outer harness's line on stdout
dockerRuns ==
  {Run(<<BadJsonLine>>, <<>>, 0),
   Run(<<JsonLine("true", NullOut, FALSE)>>, <<JsonLine("absent", NullOut, TRUE)>>, 0)}

\* executeWithDocker: the object it returns for a run
dockerResult(run) ==
  LET result == deriveResult(run.stdout, run.stderr, run.exitCode)
  IN [success |-> result.success, output |-> parseOutput(result.output),
      error |-> result.error, strategy |-> "docker"]

\* executeWithDocker threw DOCKER_EXECUTION_FAILED: autoExecute falls back
\* to executeWithVM2, executeCode rethrows
dockerFailed(x) ==
  IF x.strategy = "auto"
  THEN [x EXCEPT !.pc = "x_vm2"]
  ELSE [x EXCEPT !.pc = "x_done", !.thrown = "DOCKER_EXECUTION_FAILED"]

\* executeWithDocker starts: createContainer up to its first await, or its
\* CONTAINER_LIMIT_EXCEEDED
startDocker(x) ==
  IF Cardinality(DOMAIN activeContainers) >= maxContainers
  THEN dockerFailed([x EXCEPT !.dockerTried = TRUE])
  ELSE [x EXCEPT !.pc = "x_creating", !.dockerTried = TRUE]

\* the call: the cache lookup, then the strategy's first synchronous part
execExecuteCode(daemon) ==
  /\ exec.pc = "idle"
  /\ exec.calls < ExecCalls
  /\ \E strategy \in Strategies, code \in ExecCodes, language \in Languages,
        requireIsolation \in BOOLEAN, ok \in daemon :
       LET key == generateCacheKey(code)
           x == [IdleExec EXCEPT !.calls = exec.calls + 1,
                   !.strategy = strategy, !.code = code,
                   !.language = language,
                   !.requireIsolation = requireIsolation, !.cacheKey = key]
       IN exec' =
            IF cacheHit(key, now)
            THEN [x EXCEPT !.pc = "x_done", !.fromCache = TRUE,
                           !.result = executionCache[key].result]
            ELSE IF strategy = "docker" THEN startDocker(x)
            ELSE IF strategy = "vm2" THEN [x EXCEPT !.pc = "x_vm2"]
            ELSE IF shouldUseDocker(x)
            THEN [x EXCEPT !.pc = "x_auto", !.health = healthCheck(ok)]
            ELSE [x EXCEPT !.pc = "x_vm2"]
  /\ UNCHANGED <<rollback, healthReport, now, started, req, executionStats, admitted, activeContainers,
                 docker, lateDestroys, sweep, mockData, saveLog, callCount,
                 executionCache>>

\* autoExecute after its await: the comparison with 'HEALTHY'
execAutoExecute ==
  /\ exec.pc = "x_auto"
  /\ exec' = IF promiseStatus(exec.health) = "HEALTHY"
             THEN startDocker(exec)
             ELSE [exec EXCEPT !.pc = "x_vm2"]
  /\ UNCHANGED <<rollback, healthReport, now, started, req, executionStats, admitted, activeContainers,
                 docker, lateDestroys, sweep, mockData, saveLog, callCount,
                 executionCache>>

\* executeWithVM2: vm.run answers.  For a thrown null the catch block's
\* error.message throws a TypeError, which executeCode rethrows.
execVM2(outcomes) ==
  /\ exec.pc = "x_vm2"
  /\ \E outcome \in outcomes :
       LET threw == [exec EXCEPT !.userThrew =
                       IF outcome = "returns" THEN Falsy ELSE "vm2"]
       IN IF outcome = "throws_null"
          THEN /\ exec' = [threw EXCEPT !.pc = "x_done", !.thrown = "TypeError"]
               /\ executionCache' = executionCache
          ELSE /\ exec' = [threw EXCEPT !.pc = "x_done",
                                        !.result = vm2Result(outcome)]
               /\ executionCache' = afterResult(exec, vm2Result(outcome))
  /\ UNCHANGED <<rollback, healthReport, now, started, req, executionStats, admitted, activeContainers,
                 docker, lateDestroys, sweep, mockData, saveLog, callCount>>

\* the id of the container of the call
execContainerId == 100 + exec.calls

\* createContainer: docker.createContainer and container.start answer
execCreateContainer(daemon) ==
  /\ exec.pc = "x_creating"
  /\ LET id == execContainerId
     IN \E answer \in createAnswers(daemon) :
          /\ docker' = IF answer = "started" THEN set(docker, id, "running")
                       ELSE IF answer = "start_failed"
                       THEN set(docker, id, "created")
                       ELSE docker
          /\ activeContainers' =
               IF answer = "started"
               THEN set(activeContainers, id, [createdAt |-> now, lastUsed |-> now])
               ELSE activeContainers
          /\ exec' = IF answer = "started"
                     THEN [exec EXCEPT !.pc = "x_running", !.containerId = id]
                     ELSE dockerFailed(exec)
  /\ UNCHANGED <<rollback, healthReport, now, started, req, executionStats, admitted, lateDestroys,
                 sweep, mockData, saveLog, callCount, executionCache>>

\* dockerManager.executeCode resolves; the finally block calls
\* destroyContainer
execStreamEnd(runs) ==
  /\ exec.pc = "x_running"
  /\ \E run \in runs :
       exec' = [exec EXCEPT !.pc = "x_stopping", !.pending = dockerResult(run),
                            !.userThrew =
                              IF Len(run.stderr) > 0 THEN "docker" ELSE Falsy]
  /\ UNCHANGED <<rollback, healthReport, now, started, req, executionStats, admitted, activeContainers,
                 docker, lateDestroys, sweep, mockData, saveLog, callCount,
                 executionCache>>

\* the timeout fires: forceStopContainer's kill answers, executeCode rejects
\* and the finally block calls destroyContainer
execTimeout(daemon) ==
  /\ exec.pc = "x_running"
  /\ LET id == exec.containerId
     IN \E ok \in daemonAnswers(id, daemon) :
          /\ docker' = destroyed(id, ok)
          /\ activeContainers' =
               IF ok THEN delete(activeContainers, id) ELSE activeContainers
          /\ exec' = IF ok THEN dockerFailed(exec)
                     ELSE [exec EXCEPT !.pc = "x_stopping", !.failed = TRUE]
  /\ UNCHANGED <<rollback, healthReport, now, started, req, executionStats, admitted, lateDestroys,
                 sweep, mockData, saveLog, callCount, executionCache>>

\* destroyContainer in the finally block of executeWithDocker: stop
\* answers and, if it failed, the forced remove; then executeWithDocker
\* returns its result or throws, and executeCode caches a successful result
execDestroy(daemon) ==
  /\ exec.pc = "x_stopping"
  /\ LET id == exec.containerId
     IN \E stopped \in daemonAnswers(id, daemon), removed \in daemonAnswers(id, daemon) :
          /\ docker' = destroyed(id, stopped \/ removed)
          /\ activeContainers' =
               IF stopped \/ removed THEN delete(activeContainers, id)
               ELSE activeContainers
  /\ IF exec.failed
     THEN /\ exec' = dockerFailed(exec)
          /\ executionCache' = executionCache
     ELSE /\ exec' = [exec EXCEPT !.pc = "x_done", !.result = exec.pending]
          /\ executionCache' = afterResult(exec, exec.pending)
  /\ UNCHANGED <<rollback, healthReport, now, started, req, executionStats, admitted, lateDestroys,
                 sweep, mockData, saveLog, callCount>>

\* the caller has its result or its exception; the next call can be made
execReturn ==
  /\ exec.pc = "x_done"
  /\ exec' = [IdleExec EXCEPT !.calls = exec.calls]
  /\ UNCHANGED <<rollback, healthReport, now, started, req, executionStats, admitted, activeContainers,
                 docker, lateDestroys, sweep, mockData, saveLog, callCount,
                 executionCache>>

\* cleanupCache, run by the cleanup interval
cleanupCache ==
  /\ \E key \in DOMAIN executionCache :
       now - executionCache[key].timestamp > cacheTTL
  /\ executionCache' =
       [key \in {k \in DOMAIN executionCache :
                   ~(now - executionCache[k].timestamp > cacheTTL)} |->
          executionCache[key]]
  /\ UNCHANGED <<rollback, healthReport, now, started, req, executionStats, admitted, activeContainers,
                 docker, lateDestroys, sweep, mockData, saveLog, callCount, exec>>


(***************************************************************************)
(* Specifications.                                                         *)
(***************************************************************************)
Reliable == {TRUE}

Flaky == {TRUE, FALSE}

\* the steps of one executeEndpoint call after its start, with the runs
\* its sandboxed code may make and the answers the database and the Docker
\* daemon may give
step(r, runs, db, daemon) ==
  \/ checkRateLimit(r)
  \/ lookupEndpoint(r)
  \/ logValidationFailure(r, db)
  \/ createContainer(r, daemon)
  \/ streamEnd(r, runs)
  \/ streamError(r)
  \/ executionTimeout(r)
  \/ forceStopContainer(r, daemon)
  \/ logExecution(r, db)
  \/ updateEndpointStats(r, db)
  \/ logExecutionError(r, db)
  \/ destroyContainerStop(r, daemon)
  \/ destroyContainerRemove(r, daemon)

\* Spec: one call of executeEndpoint on a fresh service, by any user, for
\* any endpoint id and collection id, running code that prints anything
Next ==
  \E r \in {1} :
    \/ /\ started = 0
       /\ executeEndpoint(r, Users, {"e1", "e2", "e3", MissingEndpoint},
                          {Falsy} \cup CollectionIds)
    \/ step(r, plainRuns \cup directiveRuns(req[r]), Flaky, Flaky)
    \/ saveFromExecutionRead(r)
    \/ saveFromExecutionCommit(r, Flaky)

Spec == Init /\ [][Next]_vars

\* SpecDocker: concurrent calls by the owner for the valid and the too-long
\* endpoint, with a daemon that may reject, while time passes and the
\* cleanup interval fires
NextDocker ==
  \/ \E r \in Requests :
       \/ /\ started < NumRequests
          /\ executeEndpoint(r, {"owner"}, {"e1", "e2"}, {Falsy})
       \/ step(r, {harnessResult(PlainObject)}, Reliable, Flaky)
  \/ cleanupOldContainers
  \/ sweepStop(Flaky)
  \/ sweepRemove(Flaky)
  \/ Tick

SpecDocker == Init /\ [][NextDocker]_vars

\* SpecSave: concurrent calls by editors of p1 whose code saves to c1; the
\* daemon and the database answer every call and every run completes
NextSave ==
  \E r \in Requests :
    \/ /\ started < NumRequests
       /\ executeEndpoint(r, {"owner", "editor"}, {"e1", "e3"}, {"c1"})
    \/ checkRateLimit(r)
    \/ lookupEndpoint(r)
    \/ logValidationFailure(r, Reliable)
    \/ createContainer(r, Reliable)
    \/ streamEnd(r, {harnessResult(DirectiveObject(harnessSaveOp(req[r], d))) :
                       d \in {ArrayOf(<<>>), ArrayOf(<<"b", "a">>)}})
    \/ saveFromExecutionRead(r)
    \/ saveFromExecutionCommit(r, Reliable)
    \/ logExecution(r, Reliable)
    \/ updateEndpointStats(r, Reliable)
    \/ logExecutionError(r, Reliable)
    \/ destroyContainerStop(r, Reliable)

SpecSave == Init /\ [][NextSave]_vars

\* SpecSeq: calls one after the other over time, by the owner and by an
\* outsider, for a valid endpoint, invalid ones and a missing one; the
\* daemon and the database answer every call
NextSeq ==
  \/ \E r \in {1} :
       \/ /\ started < RateRequests
          /\ executeEndpoint(r, {"owner", "outsider"},
                             {"e1", "e2", "e3", MissingEndpoint}, {Falsy})
       \/ checkRateLimit(r)
       \/ lookupEndpoint(r)
       \/ logValidationFailure(r, Reliable)
       \/ createContainer(r, Reliable)
       \/ streamEnd(r, plainRuns)
       \/ streamError(r)
       \/ executionTimeout(r)
       \/ forceStopContainer(r, Reliable)
       \/ logExecution(r, Reliable)
       \/ updateEndpointStats(r, Reliable)
       \/ logExecutionError(r, Reliable)
       \/ destroyContainerStop(r, Reliable)
       \/ respond(r)
  \/ Tick

SpecSeq == Init /\ [][NextSeq]_vars

\* SpecReclaim: concurrent calls by the owner, all made at time 0, whose
\* destroyContainer may be rejected by the daemon; afterwards the daemon
\* answers every call for a container it still has, time passes, containers
\* exit when their command ends, and the cleanup interval fires.  Every
\* await resolves, the clock advances and the interval keeps firing.
\* (The calls end within the first half hour.)
requestStep(r) ==
  \/ checkRateLimit(r)
  \/ lookupEndpoint(r)
  \/ createContainer(r, Reliable)
  \/ streamEnd(r, {harnessResult(PlainObject)})
  \/ logExecution(r, Reliable)
  \/ updateEndpointStats(r, Reliable)
  \/ destroyContainerStop(r, Flaky)
  \/ destroyContainerRemove(r, Flaky)

laterTick ==
  /\ \A r \in Requests : req[r].pc \in {"idle", "done"}
  /\ TickWithExits

NextReclaim ==
  \/ \E r \in Requests :
       \/ /\ started < NumRequests
          /\ now = 0
          /\ executeEndpoint(r, {"owner"}, {"e1"}, {Falsy})
       \/ requestStep(r)
  \/ cleanupOldContainers
  \/ sweepStop(Reliable)
  \/ sweepRemove(Reliable)
  \/ laterTick

SpecReclaim ==
  /\ Init
  /\ [][NextReclaim]_vars
  /\ \A r \in Requests : WF_vars(requestStep(r))
  /\ WF_vars(cleanupOldContainers)
  /\ WF_vars(sweepStop(Reliable))
  /\ WF_vars(sweepRemove(Reliable))
  /\ WF_vars(laterTick)

\* SpecRollback: calls one after the other by editors of p1 whose code
\* saves to c1, and rollbacks of c1 by any user at any moment; the daemon
\* and the database answer every call
NextRollback ==
  \/ \E r \in {1} :
       \/ /\ started < NumRequests
          /\ executeEndpoint(r, {"owner", "editor"}, {"e1"}, {"c1"})
       \/ checkRateLimit(r)
       \/ lookupEndpoint(r)
       \/ createContainer(r, Reliable)
       \/ streamEnd(r, {harnessResult(DirectiveObject(harnessSaveOp(req[r], d))) :
                          d \in {ArrayOf(<<>>), ArrayOf(<<"b", "a">>)}})
       \/ saveFromExecutionRead(r)
       \/ saveFromExecutionCommit(r, Reliable)
       \/ logExecution(r, Reliable)
       \/ updateEndpointStats(r, Reliable)
       \/ destroyContainerStop(r, Reliable)
       \/ respond(r)
  \/ rollbackCollection(Users, {"c1"})

SpecRollback == Init /\ [][NextRollback]_vars

\* SpecLog: one call by any user for an endpoint; the log sink and the
\* daemon answer every call, the endpoint update may fail
NextLog ==
  \E r \in {1} :
    \/ /\ started = 0
       /\ executeEndpoint(r, Users, {"e1", "e2", "e3", MissingEndpoint}, {Falsy})
    \/ checkRateLimit(r)
    \/ lookupEndpoint(r)
    \/ logValidationFailure(r, Reliable)
    \/ createContainer(r, Reliable)
    \/ streamEnd(r, plainRuns)
    \/ streamError(r)
    \/ executionTimeout(r)
    \/ forceStopContainer(r, Reliable)
    \/ logExecution(r, Reliable)
    \/ updateEndpointStats(r, Flaky)
    \/ logExecutionError(r, Reliable)
    \/ destroyContainerStop(r, Reliable)

SpecLog == Init /\ [][NextLog]_vars

\* SpecCode: one call by the owner for an endpoint with any of the codes;
\* the daemon and the database answer every call
NextCode ==
  \E r \in {1} :
    \/ /\ started = 0
       /\ executeEndpoint(r, {"owner"}, EndpointIds, {Falsy})
    \/ checkRateLimit(r)
    \/ lookupEndpoint(r)
    \/ logValidationFailure(r, Reliable)
    \/ createContainer(r, Reliable)
    \/ streamEnd(r, plainRuns)
    \/ streamError(r)
    \/ logExecution(r, Reliable)
    \/ updateEndpointStats(r, Reliable)
    \/ logExecutionError(r, Reliable)
    \/ destroyContainerStop(r, Reliable)

SpecCode == Init /\ [][NextCode]_vars

\* SpecHealth: the calls of SpecSeq, with health checks made at any moment
\* against a daemon that may be unreachable
NextHealth ==
  \/ NextSeq
  \/ sandboxHealthCheck(Flaky)

SpecHealth == Init /\ [][NextHealth]_vars

\* SpecParse: one call by the owner for the valid endpoint, whose run prints
\* any arrangement of lines; the daemon and the database answer every call
NextParse ==
  \E r \in {1} :
    \/ /\ started = 0
       /\ executeEndpoint(r, {"owner"}, {"e1"}, {Falsy})
    \/ checkRateLimit(r)
    \/ lookupEndpoint(r)
    \/ createContainer(r, Reliable)
    \/ streamEnd(r, stdoutRuns)
    \/ logExecution(r, Reliable)
    \/ updateEndpointStats(r, Reliable)
    \/ destroyContainerStop(r, Reliable)

SpecParse == Init /\ [][NextParse]_vars

\* SpecExecutor: CodeExecutor.executeCode calls one after the other over
\* time, with every strategy, code, language and isolation request
NextExecutor ==
  \/ execExecuteCode(Flaky)
  \/ execAutoExecute
  \/ execVM2(VmOutcomes)
  \/ execCreateContainer(Flaky)
  \/ execStreamEnd(dockerRuns)
  \/ execTimeout(Flaky)
  \/ execDestroy(Flaky)
  \/ execReturn
  \/ cleanupCache
  \/ Tick

SpecExecutor == Init /\ [][NextExecutor]_vars

(***************************************************************************)
(* Properties.                                                             *)
(***************************************************************************)
\* the calls that have been made and not yet answered and cleared
calls == {r \in Requests : req[r].pc # "idle"}

\* C1: the number of registered active containers never exceeds
\* maxContainers, under every interleaving of concurrent createContainer
\* calls.  (SpecDocker)
C1_RegistryWithinLimit == Cardinality(DOMAIN activeContainers) <= maxContainers

\* C2: when the request supplied a collection id, the collection id passed
\* to saveFromExecution is the request's, never the directive's.  (Spec)
C2_RequestCollectionWins ==
  \A r \in calls : \A i \in 1..Len(req[r].saves) :
    req[r].mockDataCollectionId # Falsy
      => req[r].saves[i].collectionId = req[r].mockDataCollectionId

\* C3: the user id under which saveFromExecution checks edit access is the
\* authenticated caller of executeEndpoint, and the endpoint id it is given
\* is the request's, for every directive content.  (Spec)
C3_RequestIdentityWins ==
  \A r \in calls : \A i \in 1..Len(req[r].saves) :
    /\ req[r].saves[i].userId = req[r].userId
    /\ req[r].saves[i].endpointId = req[r].endpointId

\* C4: every container the daemon holds is registered for cleanup (none is
\* leaked), and no container is sent a stop, kill or remove after it was
\* destroyed.  (SpecDocker)
C4_DestroyedExactlyOnce ==
  /\ \A id \in DOMAIN docker : id \in DOMAIN activeContainers
  /\ lateDestroys = {}

\* C5: when executeEndpoint has returned or thrown, the container it
\* created is no longer in the registry.  (SpecDocker)
C5_DestroyedOnReturn ==
  \A r \in calls :
    req[r].pc = "done" /\ req[r].containerId # 0
      => req[r].containerId \notin DOMAIN activeContainers

\* C6: saveFromExecution is invoked only for a run that completed with a
\* successful execution result.  (Spec)
C6_SaveOnlyAfterSuccess ==
  \A r \in calls :
    req[r].saves # <<>> => req[r].executed /\ req[r].executionResult.success

\* the save of call r commits in this step
commits(r) ==
  /\ req[r].pc = "save_commit"
  /\ req'[r].saveResults = req[r].saveResults + 1

\* C7 as claimed: the version a save persists is the version persisted
\* immediately before its commit plus 1, and the persisted item count is
\* the directive's, also for concurrent saves.  (SpecSave)
C7_VersionIsPreviousPlusOne ==
  [][\A r \in Requests :
       commits(r) =>
         LET c == req[r].saveOp.collectionId
         IN /\ mockData'[c].version = mockData[c].version + 1
            /\ Len(mockData'[c].data) = Len(req[r].saveOp.data.items)]_vars

\* C7 as amended: the version a save persists is the version that save
\* read plus 1 (a missing version reading as 1), and the persisted item
\* count is the directive's.  (SpecSave)
C7_VersionIsReadPlusOne ==
  [][\A r \in Requests :
       commits(r) =>
         LET c == req[r].saveOp.collectionId
             read == req[r].snapshot.version
         IN /\ mockData'[c].version = (IF read = NoVersion THEN 1 ELSE read) + 1
            /\ Len(mockData'[c].data) = Len(req[r].saveOp.data.items)]_vars

\* two saves to c1 that both read version 1 have both committed
C7_Witness ==
  /\ \A r \in {1, 2} : req[r].saveResults = 1 /\ req[r].snapshot.version = 1
  /\ mockData["c1"].version = 2

\* the calls of user u that checkRateLimit admitted at a time in lo..hi
admittedIn(u, lo, hi) ==
  Cardinality({i \in DOMAIN admitted[u] :
                 lo <= admitted[u][i] /\ admitted[u][i] <= hi})

\* a call rejected by the rate limit has had no container created
rejectedBeforeCreation ==
  \A r \in calls :
    req[r].error = "RATE_LIMIT_EXCEEDED"
      => /\ req[r].created = 0
         /\ req[r].containerId = 0
         /\ req[r].serial \notin DOMAIN docker

\* C8 as claimed: per user, the calls admitted within any sliding window of
\* one hour never exceed maxExecutionsPerUser, and a rejected call has had
\* no container created.  (SpecSeq)
C8_SlidingWindow ==
  /\ \A u \in Users : \A t \in 0..MaxTime :
       admittedIn(u, t - HourTicks + 1, t) <= maxExecutionsPerUser
  /\ rejectedBeforeCreation

\* C8 as amended: per user, the calls admitted within one window of the
\* counter (from the call that opened it to its resetTime, one hour later)
\* never exceed maxExecutionsPerUser, and a rejected call has had no
\* container created.  (SpecSeq)
C8_FixedWindow ==
  /\ \A u \in DOMAIN executionStats :
       LET opened == executionStats[u].resetTime - HourTicks
       IN /\ admittedIn(u, opened, executionStats[u].resetTime)
               <= maxExecutionsPerUser
          /\ admittedIn(u, opened, MaxTime) = executionStats[u].count
  /\ rejectedBeforeCreation

\* a call was rejected by the rate limit with the user's window full
C8_Witness ==
  \E r \in calls :
    /\ req[r].error = "RATE_LIMIT_EXCEEDED"
    /\ admittedIn(req[r].userId, 0, MaxTime) >= maxExecutionsPerUser

\* C9: a call for which a container is created is by a user with edit
\* access to the endpoint's project and, when a collection id is supplied,
\* to the collection's project.  (Spec)
C9_EditAccessRequired ==
  \A r \in calls :
    req[r].created > 0 =>
      /\ hasEditAccess(endpoints[req[r].endpointId].projectId, req[r].userId)
      /\ req[r].mockDataCollectionId # Falsy =>
           hasEditAccess(collectionProject[req[r].mockDataCollectionId],
                         req[r].userId)

\* the errors of the rate limit, the endpoint lookup, the access check and
\* code validation
earlyErrors ==
  {"RATE_LIMIT_EXCEEDED", "ENDPOINT_NOT_FOUND", "ENDPOINT_ACCESS_DENIED",
   "SANDBOX_VALIDATION_FAILED"}

\* C10: a call that fails at the rate limit, the endpoint lookup, the
\* access check or code validation never calls createContainer; a call
\* that does call it has passed the rate limit and validation; and a call
\* for code longer than the maximum length is rejected with no container
\* created.  (SpecSeq)
C10_NoContainerForRejected ==
  \A r \in calls :
    /\ req[r].error \in earlyErrors =>
         /\ req[r].created = 0
         /\ req[r].containerId = 0
         /\ req[r].serial \notin DOMAIN docker
    /\ req[r].created > 0 =>
         /\ req[r].pc \notin {"rate", "lookup", "vlog"}
         /\ req[r].error \notin earlyErrors
         /\ req[r].userId \in DOMAIN executionStats
    /\ ( /\ req[r].endpointId \in EndpointIds
         /\ endpoints[req[r].endpointId].code.length > MaxCodeLength )
       => /\ req[r].created = 0
          /\ req[r].serial \notin DOMAIN docker
          /\ req[r].pc = "done" /\ req[r].error \notin {"RATE_LIMIT_EXCEEDED",
                                                          "ENDPOINT_ACCESS_DENIED"}
               => req[r].error = "SANDBOX_VALIDATION_FAILED"

\* a call for the endpoint with 60,000 characters of code has been rejected
\* by validation, after calls that did create containers
C10_Witness ==
  \E r \in calls :
    /\ req[r].endpointId = "e2"
    /\ endpoints["e2"].code.length = 60000
    /\ req[r].pc = "done"
    /\ req[r].error = "SANDBOX_VALIDATION_FAILED"
    /\ req[r].validationError = "CODE_TOO_LONG"
    /\ req[r].created = 0
    /\ callCount["e1"] > 0

\* the calls that ended rejected by the rate limit, the access check or
\* code validation
rejected ==
  {r \in calls :
     /\ req[r].pc = "done"
     /\ req[r].error \in {"RATE_LIMIT_EXCEEDED", "ENDPOINT_ACCESS_DENIED",
                          "SANDBOX_VALIDATION_FAILED"}}

\* call r has created no container, made no save and left callCount alone
leftStoresAlone(r) ==
  /\ ~req[r].called
  /\ req[r].created = 0 /\ req[r].containerId = 0
  /\ req[r].serial \notin DOMAIN activeContainers
  /\ req[r].saves = <<>> /\ req[r].saveResults = 0

\* C11 as claimed: a call rejected by validation, authorization or the rate
\* limit has changed nothing: not the user's rate count, the execution log,
\* the endpoint's callCount, the container registry or the mock-data store.
\* (SpecSeq)
C11_NoSideEffects ==
  \A r \in rejected :
    /\ ~req[r].counted
    /\ req[r].logs = <<>>
    /\ leftStoresAlone(r)

\* C11 as amended: a rejected call has left callCount, the container
\* registry and the mock-data store unchanged; a call rejected by the rate
\* limit has also left the user's rate count and the execution log
\* unchanged; a call rejected by authorization has been counted against the
\* user's rate limit and has written no log record; a call rejected by
\* validation has been counted and, the database answering, has written
\* one log record, with status 400.  (SpecSeq)
C11_RejectedEffects ==
  \A r \in rejected :
    /\ leftStoresAlone(r)
    /\ req[r].error = "RATE_LIMIT_EXCEEDED" =>
         ~req[r].counted /\ req[r].logs = <<>>
    /\ req[r].error = "ENDPOINT_ACCESS_DENIED" =>
         req[r].counted /\ req[r].logs = <<>>
    /\ req[r].error = "SANDBOX_VALIDATION_FAILED" =>
         req[r].counted /\ req[r].logs = <<400>>

\* a call was rejected by validation when the user's rate count was already
\* at the limit through calls that were themselves rejected or ran
C11_Witness ==
  \E r \in rejected :
    /\ req[r].error = "SANDBOX_VALIDATION_FAILED"
    /\ req[r].counted /\ req[r].logs = <<400>>
    /\ executionStats[req[r].userId].count = maxExecutionsPerUser

\* C12: every call that has returned or thrown has written an execution
\* log record, whatever its outcome.  (SpecSeq, the database answering)
C12_LogAlwaysWritten ==
  \A r \in calls : req[r].pc = "done" => Len(req[r].logs) >= 1

\* the calls whose run succeeded and whose saveFromExecution then failed
failedSaves ==
  {r \in calls : req[r].executionResult.success /\ req[r].saveError # Falsy}

\* C13: a call whose run succeeded and whose save failed does not throw
\* because of the save, and returns the success flag and the data of the
\* run; the only error it can end with is that of the endpoint update that
\* follows the save whether it failed or not.  (Spec)
C13_SaveFailureKeepsResult ==
  /\ \A r \in calls :
       req[r].response.present =>
         /\ req[r].response.success = req[r].executionResult.success
         /\ req[r].response.data =
              IF req[r].executionResult.success
              THEN parseOutput(req[r].executionResult.output) ELSE NullOut
  /\ \A r \in failedSaves :
       /\ req[r].error \in {Falsy, "ENDPOINT_UPDATE_FAILED"}
       /\ req[r].pc = "done" /\ req[r].error = Falsy =>
            /\ req[r].response.present
            /\ req[r].response.success
            /\ req[r].response.data.saveOp.present

\* a call has returned after its directive was refused by the schema
C13_Witness ==
  \E r \in failedSaves :
    /\ req[r].pc = "done"
    /\ req[r].saveError = "SCHEMA_VALIDATION_FAILED"
    /\ req[r].response.present /\ req[r].response.success

\* C14: the response of a call whose save failed has a non-null savedData
\* (0 stands for null), so that a null savedData means that no save was
\* attempted.  (Spec)
C14_SaveFailureSurfaced ==
  \A r \in calls :
    req[r].response.present =>
      /\ req[r].saveError # Falsy => req[r].response.savedData # 0
      /\ req[r].response.savedData = 0 => req[r].saves = <<>>

\* C15: callCount is incremented only by a call whose execution result is
\* successful.  (Spec)
C15_CountedOnlyOnSuccess ==
  /\ \A r \in calls : req[r].called => req[r].executionResult.success
  /\ \A e \in EndpointIds :
       callCount[e] > 0 =>
         \E r \in calls : req[r].endpointId = e /\ req[r].executionResult.success

\* C17: a call that repeats, less than cacheTTL after it returned a
\* successful result, a request with the same code and context makes no
\* createContainer call and returns that result.  (SpecDocker)
C17_RepeatAllocatesNothing ==
  \A r \in calls :
    req[r].repeat =>
      /\ req[r].created = 0
      /\ req[r].containerId = 0

\* C16: when the user's code throws inside executeWithVM2, the call raises
\* no exception: it returns success = false, output = null and an error
\* that is populated.
C16_UserErrorReturned ==
  (exec.pc = "x_done" /\ exec.userThrew = "vm2") =>
    /\ exec.thrown = Falsy
    /\ ~exec.result.success
    /\ exec.result.output = NullOut
    /\ exec.result.error # Falsy

\* C18: every entry of the execution cache holds a result with
\* success = true; a call that returned success false, threw or timed out
\* leaves no entry.
C18_CacheHoldsSuccessesOnly ==
  \A key \in DOMAIN executionCache : executionCache[key].result.success

\* a call that ran and failed has finished, its key is not in the cache, and
\* the cache holds the result of an earlier call
C18_Witness ==
  /\ exec.pc = "x_done"
  /\ ~exec.fromCache
  /\ ~exec.result.success
  /\ exec.cacheKey \notin DOMAIN executionCache
  /\ DOMAIN executionCache # {}

\* C19: an autoExecute call whose code uses asynchronous constructs, whose
\* language is not javascript or whose caller requires isolation, made while
\* the health check reports HEALTHY, attempts the docker strategy; vm2 runs
\* it only after that attempt failed.
C19_HeavyWhenHealthy ==
  (/\ exec.strategy = "auto"
   /\ shouldUseDocker(exec)
   /\ exec.health = "HEALTHY"
   /\ exec.pc \in {"x_vm2", "x_creating", "x_running", "x_stopping", "x_done"}
   /\ ~exec.fromCache)
    => exec.dockerTried

\* C20: the output of a completed run is the last well-formed JSON value
\* of its stdout, wherever the JSON lines and the log lines stand; when no
\* line of stdout is well-formed JSON the output is the raw stdout text.
C20_LastJsonValueWins ==
  \A r \in calls :
    (req[r].executed /\ Len(req[r].stdout) > 0) =>
      LET stdout == req[r].stdout
          parses == {i \in 1..Len(stdout) : stdout[i].kind = "json"}
          last == CHOOSE i \in parses : \A j \in parses : j <= i
      IN req[r].executionResult.output =
           IF parses = {} THEN TextOut
           ELSE IF stdout[last].data.kind = "null" THEN EmptyObject
           ELSE stdout[last].data

\* C21: a SandboxService.healthCheck call never throws: it returns a
\* verdict, HEALTHY or UNHEALTHY, with the count of active containers, the
\* ceiling, the total of executions and the rate limit, also when the
\* Docker daemon cannot be reached.
C21_HealthAlwaysReturns ==
  healthReport # NoHealthReport =>
    /\ healthReport.returned
    /\ healthReport.thrown = Falsy
    /\ healthReport.status \in {"HEALTHY", "UNHEALTHY"}
    /\ healthReport.maxContainers = maxContainers
    /\ healthReport.rateLimit = maxExecutionsPerUser

\* C22: when concurrent executions save different arrays to one collection,
\* each commit replaces the persisted data by exactly the array of the save
\* that commits, and nothing else writes the data: what is persisted is
\* always the array of the save that committed last.  (SpecSave)
C22_LastCommitWins ==
  [][/\ \A r \in Requests :
          commits(r) =>
            mockData'[req[r].saveOp.collectionId].data = req[r].saveOp.data.items
     /\ mockData' # mockData => \E r \in Requests : commits(r)]_vars

\* two saves of different arrays to c1 that had both read the collection
\* before either committed have both committed, and the persisted data is
\* the array of the second call
C22_Witness ==
  /\ \A r \in {1, 2} :
       /\ req[r].saveResults = 1
       /\ req[r].saveOp.collectionId = "c1"
       /\ req[r].snapshot.version = 1
  /\ req[1].saveOp.data.items # req[2].saveOp.data.items
  /\ mockData["c1"].data = req[2].saveOp.data.items

\* C23: the validation of executeEndpoint rejects every code that requires
\* or imports 'fs', that contains eval( or that has more loop constructs
\* than the limit, and accepts code within the limit that holds no denied
\* construct.  (SpecCode)
C23_ValidationDecides ==
  \A r \in calls :
    req[r].pc \notin {"rate", "lookup"} =>
      LET code == endpoints[req[r].endpointId].code
          usesFs == code.constructs
                      \cap {"require_fs", "import_fs", "require_fs_spaced"} # {}
          denied == usesFs \/ "eval" \in code.constructs \/ code.loops > MaxLoops
      IN /\ denied => /\ req[r].error = "SANDBOX_VALIDATION_FAILED"
                      /\ req[r].created = 0
         /\ ( /\ ~denied
              /\ code.constructs \cap DeniedConstructs = {}
              /\ code.length <= MaxCodeLength
              /\ ~code.blank )
            => req[r].validationError = Falsy

\* C24: code that requires a network module or allocates a very large
\* array never reaches createContainer through executeEndpoint.  (SpecCode)
C24_NetworkAndAllocationRejected ==
  \A r \in calls :
    endpoints[req[r].endpointId].code.constructs
        \cap {"require_net", "require_http", "require_https", "big_array"} # {}
      => /\ req[r].created = 0
         /\ req[r].containerId = 0

\* what the caller of call q can see of it
outcomeOf(q) ==
  <<q.error, q.validationError, q.executionResult, q.response, q.saveResults>>

\* C25: whether prisma.executionLog.create succeeds or throws, a logging
\* step leaves the call with the same outcome and at the same place: the
\* validation failure is thrown, the endpoint update follows the log of a
\* result, and the catch block rethrows its error.  (Spec)
C25_LogFailureInvisible ==
  [][\A r \in Requests :
       (req[r].pc \in {"vlog", "log", "elog"} /\ req'[r] # req[r]) =>
         /\ outcomeOf(req'[r]) = outcomeOf(req[r])
         /\ req[r].pc = "vlog" => req'[r].pc = "done"
         /\ req[r].pc = "log" => req'[r].pc = "update"
         /\ req[r].pc = "elog" => req'[r].pc \in {"stopping", "done"}]_vars

\* a call whose code ran successfully has returned success although no log
\* record could be written
C25_Witness ==
  \E r \in calls :
    /\ req[r].pc = "done"
    /\ req[r].response.present
    /\ req[r].response.success
    /\ req[r].logs = <<>>

\* C26: a call that reached the execution stage writes exactly one
\* execution log record by the time it ends, and never a second one.
\* (SpecLog: every write to the log succeeds)
C26_LoggedExactlyOnce ==
  \A r \in calls :
    /\ Len(req[r].logs) <= 1
    /\ (req[r].pc = "done" /\ req[r].created > 0) => Len(req[r].logs) = 1

\* C27: a saveFromExecution call that fails with COLLECTION_NOT_FOUND,
\* COLLECTION_EDIT_ACCESS_DENIED, DATA_MUST_BE_ARRAY or
\* SCHEMA_VALIDATION_FAILED leaves every collection's persisted data,
\* version and saveCount as they were.  (Spec)
C27_FailedSaveWritesNothing ==
  [][\A r \in Requests :
       ( /\ req[r].pc = "save_read"
         /\ req'[r].saveError \in {"COLLECTION_NOT_FOUND",
                                   "COLLECTION_EDIT_ACCESS_DENIED",
                                   "DATA_MUST_BE_ARRAY",
                                   "SCHEMA_VALIDATION_FAILED"} )
         => \A c \in CollectionIds :
              /\ mockData'[c].data = mockData[c].data
              /\ mockData'[c].version = mockData[c].version
              /\ mockData'[c].saveCount = mockData[c].saveCount]_vars

\* a save to c1 of an item that violates the schema has failed, and c1
\* holds what it held on construction
C27_Witness ==
  \E r \in calls :
    /\ req[r].saveError = "SCHEMA_VALIDATION_FAILED"
    /\ req[r].saveOp.collectionId = "c1"
    /\ req[r].saveOp.data.items = <<"bad">>
    /\ mockData["c1"].data = <<"a">>
    /\ mockData["c1"].version = 1
    /\ mockData["c1"].saveCount = 0

\* C28: a rollbackCollection call by a user with edit access, made when a
\* save has been committed to the collection, succeeds and leaves the
\* collection with the data the last save backed up, the data the
\* collection held before that save.  (SpecRollback)
C28_RollbackRestores ==
  ( /\ rollback.called
    /\ rollback.saveCount > 0
    /\ canEdit(rollback.collectionId, rollback.userId) )
    => /\ rollback.error = Falsy
       /\ rollback.data = rollback.previousData

\* C29: once every call has returned or thrown, the registry of active
\* containers eventually becomes empty: the cleanup sweep reclaims the slot
\* of a container whose stop and remove had failed.  (SpecReclaim)
C29_CapacityReclaimed ==
  (started = NumRequests /\ \A r \in Requests : req[r].pc = "done")
    ~> (DOMAIN activeContainers = {})

\* C30: an executeCode call with the explicit strategy docker or vm2 that
\* returns a result returns one whose strategy is the requested one, also
\* when the result comes from the cache.  (SpecExecutor)
C30_StrategyHonoured ==
  ( /\ exec.pc = "x_done"
    /\ exec.strategy \in {"docker", "vm2"}
    /\ exec.thrown = Falsy )
    => exec.result.strategy = exec.strategy
====
